---- MODULE Spec2Model ----
(***************************************************************************)
(* Course chatbot: the conversation store, the response router and the     *)
(* registration endpoint of main.py, as a state machine.                   *)
(*                                                                         *)
(* Text is a sequence of fragments.  Caller-supplied text (chat messages,  *)
(* registration fields, completion contents) is spelled character by       *)
(* character, one fragment per character, so that lower(), strip(),        *)
(* slicing and the substring test `in` act on it as they do in Python.     *)
(* The literal chunks of the program's templates are single fragments.     *)
(***************************************************************************)
EXTENDS Integers, Sequences, FiniteSets, TLC

VARIABLES
    openai_client,          \* main.py:95-100, "client" or "None"
    conversation_contexts,  \* main.py:103, user_id -> list of exchanges
    clock,                  \* datetime.now(), one tick per request
    log,                    \* history: per key, the appends since its last /start
    http,                   \* history: the last request and its response
    alone                   \* history: per key, the store that only this key's
                            \* requests have acted on

vars == <<openai_client, conversation_contexts, clock, log, http, alone>>

-----------------------------------------------------------------------------
(* Python string operations *)

UpperCase ==
    <<"A","B","C","D","E","F","G","H","I","J","K","L","M",
      "N","O","P","Q","R","S","T","U","V","W","X","Y","Z">>

LowerCase ==
    <<"a","b","c","d","e","f","g","h","i","j","k","l","m",
      "n","o","p","q","r","s","t","u","v","w","x","y","z">>

Whitespace == {" ", "\n", "\t"}

\* str.lower() on one character
LowerChar(c) ==
    IF \E i \in 1..Len(UpperCase) : UpperCase[i] = c
    THEN LowerCase[CHOOSE i \in 1..Len(UpperCase) : UpperCase[i] = c]
    ELSE c

\* str.upper() on one character
UpperChar(c) ==
    IF \E i \in 1..Len(LowerCase) : LowerCase[i] = c
    THEN UpperCase[CHOOSE i \in 1..Len(LowerCase) : LowerCase[i] = c]
    ELSE c

\* str.lower()
Lower(s) == [i \in 1..Len(s) |-> LowerChar(s[i])]

\* str.upper()
Upper(s) == [i \in 1..Len(s) |-> UpperChar(s[i])]

\* `sub in s`
Contains(sub, s) ==
    \E i \in 1..(Len(s) - Len(sub) + 1) : SubSeq(s, i, i + Len(sub) - 1) = sub

\* str.strip()
Strip(s) ==
    LET keep == {i \in 1..Len(s) : s[i] \notin Whitespace}
    IN  IF keep = {} THEN <<>>
        ELSE LET lo == CHOOSE i \in keep : \A j \in keep : i <= j
                 hi == CHOOSE i \in keep : \A j \in keep : j <= i
             IN  SubSeq(s, lo, hi)

\* s[:n]
Prefix(s, n) == IF Len(s) <= n THEN s ELSE SubSeq(s, 1, n)

\* s[-n:], n > 0
Suffix(s, n) == IF Len(s) <= n THEN s ELSE SubSeq(s, Len(s) - n + 1, Len(s))

RECURSIVE Join(_, _)
\* sep.join(items)
Join(sep, items) ==
    IF items = <<>> THEN <<>>
    ELSE IF Len(items) = 1 THEN Head(items)
    ELSE Head(items) \o sep \o Join(sep, Tail(items))

-----------------------------------------------------------------------------
(* Configuration section *)

COURSE_INFO ==
    [ name          |-> <<"Complete Python Development Bootcamp">>,
      duration      |-> <<"12 weeks (3 months)">>,
      price         |-> <<"$299">>,
      instructor    |-> <<"John Smith">>,
      format        |-> <<"Online with live sessions">>,
      schedule      |-> <<"Monday, Wednesday, Friday - 7:00 PM to 9:00 PM EST">>,
      description   |-> <<"A comprehensive Python development course covering web development, data science, and automation">>,
      benefits      |-> << <<"Learn Python from beginner to advanced level">>,
                           <<"Build real-world projects including web applications">>,
                           <<"Get hands-on experience with popular Python frameworks">>,
                           <<"Receive a certificate of completion">>,
                           <<"Access to lifetime course materials">>,
                           <<"1-on-1 mentorship sessions">>,
                           <<"Job placement assistance">> >>,
      prerequisites |-> <<"No prior programming experience required">>,
      support       |-> <<"24/7 support via email and Discord community">> ]

\* The dict in insertion order: a list of (keyword, response) items.
FAQ_RESPONSES ==
    << [ keyword  |-> <<"d","u","r","a","t","i","o","n">>,
         response |-> <<"The course duration is ">> \o COURSE_INFO.duration \o <<".">> ],
       [ keyword  |-> <<"p","r","i","c","e">>,
         response |-> <<"The course price is ">> \o COURSE_INFO.price
                        \o <<". We also offer payment plans if needed.">> ],
       [ keyword  |-> <<"b","e","n","e","f","i","t","s">>,
         response |-> <<"Course benefits include: ">>
                        \o Join(<<", ">>, COURSE_INFO.benefits) ],
       [ keyword  |-> <<"s","c","h","e","d","u","l","e">>,
         response |-> <<"Classes are held ">> \o COURSE_INFO.schedule \o <<".">> ],
       [ keyword  |-> <<"p","r","e","r","e","q","u","i","s","i","t","e","s">>,
         response |-> <<"Prerequisites: ">> \o COURSE_INFO.prerequisites ],
       [ keyword  |-> <<"i","n","s","t","r","u","c","t","o","r">>,
         response |-> <<"Your instructor will be ">> \o COURSE_INFO.instructor
                        \o <<", an experienced Python developer.">> ],
       [ keyword  |-> <<"f","o","r","m","a","t">>,
         response |-> <<"The course format is ">> \o COURSE_INFO.format \o <<".">> ],
       [ keyword  |-> <<"s","u","p","p","o","r","t">>,
         response |-> <<"We provide ">> \o COURSE_INFO.support \o <<".">> ],
       [ keyword  |-> <<"r","e","g","i","s","t","r","a","t","i","o","n">>,
         response |-> <<"To register, please use the /register endpoint and provide your name, email, and phone number.">> ],
       [ keyword  |-> <<"c","e","r","t","i","f","i","c","a","t","e">>,
         response |-> <<"Yes, you will receive a certificate of completion after successfully finishing the course.">> ] >>

\* The greeting tokens of generate_ai_response, in list order.
GREETINGS ==
    << <<"h","e","l","l","o">>, <<"h","i">>, <<"h","e","y">>,
       <<"s","t","a","r","t">>, <<"h","e","l","p">> >>

-----------------------------------------------------------------------------
(* Python values *)

\* None (user_id: Optional[str] = None, openai_client = None)
NoneValue == "None"

\* `x is not None` in place of bool(x)
NotNone(x) == x # NoneValue

\* bool(x) of an Optional[str]: None and "" are falsy
Truthy(x) == x # NoneValue /\ x # ""

-----------------------------------------------------------------------------
(* Conversation context management *)

\* conversation_contexts.get(user_id, [])
get_conversation_context(contexts, user_id) ==
    IF user_id \in DOMAIN contexts THEN contexts[user_id] ELSE <<>>

\* the threshold of `len(...) > 5`
ContextLimit == 5

\* the slice of `[-5:]`
ContextKeep == 5

\* update_conversation_context without the `if len(...) > 5` truncation
update_without_truncation(contexts, user_id, user_message, bot_response, now) ==
    LET created  == IF user_id \in DOMAIN contexts THEN contexts[user_id] ELSE <<>>
        appended == Append(created, [ user      |-> user_message,
                                      assistant |-> bot_response,
                                      timestamp |-> now ])
    IN  [k \in DOMAIN contexts \cup {user_id} |->
            IF k = user_id THEN appended ELSE contexts[k]]

\* update_conversation_context truncating with [:5] in place of [-5:]
update_keeping_oldest(contexts, user_id, user_message, bot_response, now) ==
    LET created  == IF user_id \in DOMAIN contexts THEN contexts[user_id] ELSE <<>>
        appended == Append(created, [ user      |-> user_message,
                                      assistant |-> bot_response,
                                      timestamp |-> now ])
        kept     == IF Len(appended) > 5 THEN Prefix(appended, 5) ELSE appended
    IN  [k \in DOMAIN contexts \cup {user_id} |->
            IF k = user_id THEN kept ELSE contexts[k]]

\* update_conversation_context assigning [exchange] in place of appending
update_overwriting(contexts, user_id, user_message, bot_response, now) ==
    [k \in DOMAIN contexts \cup {user_id} |->
        IF k = user_id
        THEN << [ user |-> user_message, assistant |-> bot_response,
                  timestamp |-> now ] >>
        ELSE contexts[k]]

\* update_conversation_context with insert(0, ...) in place of append(...)
update_inserting_first(contexts, user_id, user_message, bot_response, now) ==
    LET created  == IF user_id \in DOMAIN contexts THEN contexts[user_id] ELSE <<>>
        inserted == << [ user      |-> user_message,
                         assistant |-> bot_response,
                         timestamp |-> now ] >> \o created
        kept     == IF Len(inserted) > 5 THEN Suffix(inserted, 5) ELSE inserted
    IN  [k \in DOMAIN contexts \cup {user_id} |->
            IF k = user_id THEN kept ELSE contexts[k]]

\* update_conversation_context writing back a list read before the previous
\* append to the key
update_from_stale_list(contexts, user_id, user_message, bot_response, now) ==
    LET created  == IF user_id \in DOMAIN contexts THEN contexts[user_id] ELSE <<>>
        stale    == IF created = <<>> THEN created ELSE Prefix(created, Len(created) - 1)
        appended == Append(stale, [ user      |-> user_message,
                                    assistant |-> bot_response,
                                    timestamp |-> now ])
        kept     == IF Len(appended) > 5 THEN Suffix(appended, 5) ELSE appended
    IN  [k \in DOMAIN contexts \cup {user_id} |->
            IF k = user_id THEN kept ELSE contexts[k]]

\* The store after update_conversation_context(user_id, user_message, bot_response)
\* at time now.
update_conversation_context(contexts, user_id, user_message, bot_response, now) ==
    LET created  == IF user_id \in DOMAIN contexts THEN contexts[user_id] ELSE <<>>
        appended == Append(created, [ user      |-> user_message,
                                      assistant |-> bot_response,
                                      timestamp |-> now ])
        kept     == IF Len(appended) > ContextLimit
                    THEN Suffix(appended, ContextKeep)
                    ELSE appended
    IN  [k \in DOMAIN contexts \cup {user_id} |->
            IF k = user_id THEN kept ELSE contexts[k]]

\* /start without the clearing of the key
clear_every_key(contexts, user_id) == [k \in {} |-> <<>>]

clear_nothing(contexts, user_id) == contexts

\* if user_id in conversation_contexts: del conversation_contexts[user_id]
clear_context(contexts, user_id) ==
    IF user_id \in DOMAIN contexts
    THEN [k \in DOMAIN contexts \ {user_id} |-> contexts[k]]
    ELSE contexts

-----------------------------------------------------------------------------
(* AI chatbot logic *)

get_system_prompt ==
    LET benefits_text ==
            Join(<<"\n">>, [i \in 1..Len(COURSE_INFO.benefits) |->
                               <<"- ">> \o COURSE_INFO.benefits[i]])
    IN  <<"\nYou are a helpful AI assistant for the \"">> \o COURSE_INFO.name
        \o <<"\" course. \n\nCOURSE DETAILS:\n- Course Name: ">> \o COURSE_INFO.name
        \o <<"\n- Duration: ">> \o COURSE_INFO.duration
        \o <<"\n- Price: ">> \o COURSE_INFO.price
        \o <<"\n- Instructor: ">> \o COURSE_INFO.instructor
        \o <<"\n- Format: ">> \o COURSE_INFO.format
        \o <<"\n- Schedule: ">> \o COURSE_INFO.schedule
        \o <<"\n- Prerequisites: ">> \o COURSE_INFO.prerequisites
        \o <<"\n- Support: ">> \o COURSE_INFO.support
        \o <<"\n\nCOURSE BENEFITS:\n">> \o benefits_text
        \o <<"\n\nCOURSE DESCRIPTION:\n">> \o COURSE_INFO.description
        \o <<"\n\nYour role is to: ... refer them to contact support.\n">>

\* The welcome text of the greeting branch.
GreetingResponse ==
    <<"Hello! Welcome to our ">> \o COURSE_INFO.name
    \o <<" information assistant!\n\nI'm here to help you learn about our comprehensive Python development course. Here's what I can help you with:\n\n**Course Overview:** ">>
    \o COURSE_INFO.description
    \o <<"\n**Duration:** ">> \o COURSE_INFO.duration
    \o <<"\n**Price:** ">> \o COURSE_INFO.price
    \o <<"\n**Schedule:** ">> \o COURSE_INFO.schedule
    \o <<"\n\nFeel free to ask me about: ...\n\nWhat would you like to know about the course?">>

\* `if not openai_client: return ...`
ServiceUnavailableResponse ==
    <<"I'm sorry, the AI service is not available right now. Please try again later or contact support.">>

\* the `except` branches
TroubleResponse ==
    <<"I'm sorry, I'm having trouble processing your request right now. Please try again or contact our support team for assistance.">>

\* `... else "I'm sorry, I couldn't generate a response."`
NoContentResponse == <<"I'm sorry, I couldn't generate a response.">>

\* any(greeting in user_message.lower() for greeting in [...])
is_greeting(user_message) ==
    \E i \in 1..Len(GREETINGS) : Contains(GREETINGS[i], Lower(user_message))

\* user_lower = user_message, the .lower() forgotten
user_not_lowered(user_message) == user_message

\* user_lower = user_message.lower()
user_lower_of(user_message) == Lower(user_message)

RECURSIVE faq_scan_last(_, _)
\* the FAQ loop without its early return: the last matching keyword wins
faq_scan_last(items, user_lower) ==
    IF items = <<>> THEN <<>>
    ELSE IF faq_scan_last(Tail(items), user_lower) # <<>>
         THEN faq_scan_last(Tail(items), user_lower)
    ELSE IF Contains(Head(items).keyword, user_lower) THEN <<Head(items).response>>
    ELSE <<>>

RECURSIVE faq_scan(_, _)
\* for keyword, response in FAQ_RESPONSES.items(): if keyword in user_lower: return
\* The result is <<response>>, or <<>> when the loop ends without a return.
faq_scan(items, user_lower) ==
    IF items = <<>> THEN <<>>
    ELSE IF Contains(Head(items).keyword, user_lower) THEN <<Head(items).response>>
    ELSE faq_scan(Tail(items), user_lower)

\* replay walking the history from its newest exchange to its oldest
replay_newest_first(context) ==
    [ i \in 1..(2 * Len(context)) |->
        LET exchange == context[Len(context) - ((i + 1) \div 2) + 1]
        IN  IF i % 2 = 1 THEN [role |-> "user",      content |-> exchange.user]
                         ELSE [role |-> "assistant", content |-> exchange.assistant] ]

RECURSIVE replay(_)
\* for exchange in context: messages.append(user); messages.append(assistant)
replay(context) ==
    IF context = <<>> THEN <<>>
    ELSE << [role |-> "user",      content |-> Head(context).user],
            [role |-> "assistant", content |-> Head(context).assistant] >>
         \o replay(Tail(context))

\* The messages list built before the completion call.
build_messages(user_message, context) ==
    << [role |-> "system", content |-> get_system_prompt] >>
    \o replay(context)
    \o << [role |-> "user", content |-> user_message] >>

\* generate_ai_response with the FAQ loop ahead of the greeting test
generate_faq_first(user_message, context, client, reply) ==
    LET quiet(text) == [ text |-> text, called |-> FALSE, messages |-> <<>>,
                         raised |-> FALSE ]
        sent(text)  == [ text |-> text, called |-> TRUE,
                         messages |-> build_messages(user_message, context),
                         raised |-> FALSE ]
        faq         == faq_scan(FAQ_RESPONSES, Lower(user_message))
    IN  IF faq # <<>> THEN quiet(faq[1])
        ELSE IF context = <<>> /\ is_greeting(user_message) THEN quiet(GreetingResponse)
        ELSE IF client = NoneValue THEN quiet(ServiceUnavailableResponse)
        ELSE IF reply.kind = "error" THEN sent(TroubleResponse)
        ELSE IF reply.kind = "no_choices" THEN sent(TroubleResponse)
        ELSE IF reply.kind = "null" \/ reply.content = <<>> THEN sent(NoContentResponse)
        ELSE sent(Strip(reply.content))

\* generate_ai_response with its greeting test not guarded by `not context`
generate_greeting_any_history(user_message, context, client, reply) ==
    LET quiet(text) == [ text |-> text, called |-> FALSE, messages |-> <<>>,
                         raised |-> FALSE ]
        sent(text)  == [ text |-> text, called |-> TRUE,
                         messages |-> build_messages(user_message, context),
                         raised |-> FALSE ]
        faq         == faq_scan(FAQ_RESPONSES, Lower(user_message))
    IN  IF is_greeting(user_message) THEN quiet(GreetingResponse)
        ELSE IF faq # <<>> THEN quiet(faq[1])
        ELSE IF client = NoneValue THEN quiet(ServiceUnavailableResponse)
        ELSE IF reply.kind \in {"error", "no_choices"} THEN sent(TroubleResponse)
        ELSE IF reply.kind = "null" \/ reply.content = <<>> THEN sent(NoContentResponse)
        ELSE sent(Strip(reply.content))

\* generate_ai_response without its `try`: a failing call raises
generate_without_try(user_message, context, client, reply) ==
    LET quiet(text) == [ text |-> text, called |-> FALSE, messages |-> <<>>,
                         raised |-> FALSE ]
        sent(text)  == [ text |-> text, called |-> TRUE,
                         messages |-> build_messages(user_message, context),
                         raised |-> FALSE ]
        faq         == faq_scan(FAQ_RESPONSES, Lower(user_message))
    IN  IF context = <<>> /\ is_greeting(user_message) THEN quiet(GreetingResponse)
        ELSE IF faq # <<>> THEN quiet(faq[1])
        ELSE IF client = NoneValue THEN quiet(ServiceUnavailableResponse)
        ELSE IF reply.kind \in {"error", "no_choices"}
             THEN [ text |-> <<>>, called |-> TRUE,
                    messages |-> build_messages(user_message, context),
                    raised |-> TRUE ]
        ELSE IF reply.kind = "null" \/ reply.content = <<>> THEN sent(NoContentResponse)
        ELSE sent(Strip(reply.content))

\* What openai_client.chat.completions.create(...) can do: raise, return a
\* response without choices, return a choice whose content is None, or
\* return a choice with a content string.
CompletionReply(kind, content) == [kind |-> kind, content |-> content]

\* generate_ai_response(user_message, context), given the client and what the
\* completion service does if it is called.  text is the return value; called
\* and messages record the outbound call; raised says whether an exception
\* leaves the function.
generate_ai_response(user_message, context, client, reply) ==
    LET quiet(text) == [ text |-> text, called |-> FALSE, messages |-> <<>>,
                         raised |-> FALSE ]
        sent(text)  == [ text |-> text, called |-> TRUE,
                         messages |-> build_messages(user_message, context),
                         raised |-> FALSE ]
        faq         == faq_scan(FAQ_RESPONSES, user_lower_of(user_message))
    IN  IF context = <<>> /\ is_greeting(user_message) THEN quiet(GreetingResponse)
        ELSE IF faq # <<>> THEN quiet(faq[1])
        ELSE IF client = NoneValue THEN quiet(ServiceUnavailableResponse)
        ELSE IF reply.kind = "error" THEN sent(TroubleResponse)
        ELSE IF reply.kind = "no_choices" THEN sent(TroubleResponse)
        ELSE IF reply.kind = "null" \/ reply.content = <<>> THEN sent(NoContentResponse)
        ELSE sent(Strip(reply.content))

-----------------------------------------------------------------------------
(* Google Sheets integration *)

\* What the spreadsheet service can do during one save_to_google_sheets call:
\*   setup_fail       setup_google_sheets() returns None
\*   open_fail        client.open(...) raises
\*   records_fail     sheet.get_all_records() raises
\*   insert_fail      the sheet is empty and sheet.insert_row(headers) raises
\*   append_fail_new  the sheet is empty, headers go in, sheet.append_row raises
\*   append_fail      the sheet has records and sheet.append_row raises
\*   ok_new           the sheet is empty, headers and the row go in
\*   ok               the sheet has records, the row goes in
SheetsOutcomes ==
    { "setup_fail", "open_fail", "records_fail", "insert_fail",
      "append_fail_new", "append_fail", "ok_new", "ok" }

SheetHeaders == <<"Timestamp", "Name", "Email", "Phone", "User ID", "Course">>

\* save_to_google_sheets returning True from its `except` branch
save_reporting_success(registration_data, sheets, now) ==
    LET result(saved, inserted, appended) ==
            [ saved |-> saved, inserted |-> inserted, appended |-> appended ]
        row_data == << now, registration_data.name, registration_data.email,
                       registration_data.phone,
                       IF Truthy(registration_data.user_id)
                       THEN registration_data.user_id ELSE "N/A",
                       COURSE_INFO.name >>
    IN  CASE sheets = "setup_fail"      -> result(FALSE, <<>>, <<>>)
          [] sheets = "open_fail"       -> result(TRUE, <<>>, <<>>)
          [] sheets = "records_fail"    -> result(TRUE, <<>>, <<>>)
          [] sheets = "insert_fail"     -> result(TRUE, <<>>, <<>>)
          [] sheets = "append_fail_new" -> result(TRUE, <<SheetHeaders>>, <<>>)
          [] sheets = "append_fail"     -> result(TRUE, <<>>, <<>>)
          [] sheets = "ok_new"          -> result(TRUE, <<SheetHeaders>>, <<row_data>>)
          [] sheets = "ok"              -> result(TRUE, <<>>, <<row_data>>)

\* save_to_google_sheets(registration_data) at time now: the return value and
\* the rows the sheet received (inserted is the header row, appended the data row).
save_to_google_sheets(registration_data, sheets, now) ==
    LET row_data == << now, registration_data.name, registration_data.email,
                       registration_data.phone,
                       IF Truthy(registration_data.user_id)
                       THEN registration_data.user_id ELSE "N/A",
                       COURSE_INFO.name >>
        result(saved, inserted, appended) ==
            [ saved |-> saved, inserted |-> inserted, appended |-> appended ]
    IN  CASE sheets = "setup_fail"      -> result(FALSE, <<>>, <<>>)
          [] sheets = "open_fail"       -> result(FALSE, <<>>, <<>>)
          [] sheets = "records_fail"    -> result(FALSE, <<>>, <<>>)
          [] sheets = "insert_fail"     -> result(FALSE, <<>>, <<>>)
          [] sheets = "append_fail_new" -> result(FALSE, <<SheetHeaders>>, <<>>)
          [] sheets = "append_fail"     -> result(FALSE, <<>>, <<>>)
          [] sheets = "ok_new"          -> result(TRUE, <<SheetHeaders>>, <<row_data>>)
          [] sheets = "ok"              -> result(TRUE, <<>>, <<row_data>>)

-----------------------------------------------------------------------------
(* Texts of the endpoints *)

\* welcome_message of /start
welcome_message ==
    <<"Welcome to ">> \o COURSE_INFO.name
    \o <<"!\n\nI'm your personal course assistant, here to help you learn everything about our Python development program.\n\n**Quick Course Overview:**\n**Course:** ">>
    \o COURSE_INFO.name
    \o <<"\n**Duration:** ">> \o COURSE_INFO.duration
    \o <<"\n**Investment:** ">> \o COURSE_INFO.price
    \o <<"\n**Instructor:** ">> \o COURSE_INFO.instructor
    \o <<"\n**Format:** ">> \o COURSE_INFO.format
    \o <<"\n\n**What you'll get:**\n">>
    \o Join(<<"\n">>, [i \in 1..Len(Prefix(COURSE_INFO.benefits, 5)) |->
                          <<"[x] ">> \o COURSE_INFO.benefits[i]])
    \o <<"\n\nType 'info' for detailed course information, 'faq' for common questions, or 'register' to secure your spot!\n\nWhat would you like to know?">>

SavedLine == <<"**Saved to our system successfully!**">>

NotSavedLine ==
    <<"**Registration received but there was an issue with our system. We will contact you shortly.**">>

\* confirmation_message of /register
confirmation_message(registration, sheets_success) ==
    <<"Thank you for registering, ">> \o registration.name
    \o <<"!\n\n**Registration Details:**\n**Name:** ">> \o registration.name
    \o <<"\n**Email:** ">> \o registration.email
    \o <<"\n**Phone:** ">> \o registration.phone
    \o <<"\n**Course:** ">> \o COURSE_INFO.name
    \o <<"\n\n">> \o (IF sheets_success THEN SavedLine ELSE NotSavedLine)
    \o <<"\n\n**What's Next:** ...\n\nWelcome to the ">> \o COURSE_INFO.name
    \o <<" family!">>

\* f"Registration: {name}, {email}, {phone}"
registration_text(registration) ==
    <<"Registration: ">> \o registration.name \o <<", ">> \o registration.email
    \o <<", ">> \o registration.phone

\* f"REG_{now}_{name[:3].upper()}"
registration_id(registration, now) ==
    <<"REG_", ToString(now), "_">> \o Upper(Prefix(registration.name, 3))

-----------------------------------------------------------------------------
(* API endpoints *)

NoRegistration ==
    [ name |-> <<>>, email |-> <<>>, phone |-> <<>>, user_id |-> NoneValue ]

\* The fields of a response; those an endpoint does not send are 0, FALSE, <<>>.
Answer(status, response, context_length, success, sheets_saved, reg_id) ==
    [ status |-> status, response |-> response, context_length |-> context_length,
      success |-> success, sheets_saved |-> sheets_saved, registration_id |-> reg_id ]

\* One request and its response.  before is the key's history when the
\* request arrived; sheet_inserted and sheet_appended are the rows the
\* spreadsheet received; completion_called and completion_messages are the
\* call the completion service received and completion_reply what it did.
HttpExchange(op, user_id, message, registration, before, answer, completion, sheet) ==
    [ op |-> op, user_id |-> user_id, message |-> message,
      registration |-> registration, before |-> before,
      status |-> answer.status, response |-> answer.response,
      context_length |-> answer.context_length, success |-> answer.success,
      sheets_saved |-> answer.sheets_saved,
      registration_id |-> answer.registration_id,
      completion_called |-> completion.called,
      completion_messages |-> completion.messages,
      completion_reply |-> completion.reply,
      sheet_inserted |-> sheet.inserted, sheet_appended |-> sheet.appended ]

NoCompletion ==
    [ called |-> FALSE, messages |-> <<>>, reply |-> [kind |-> "none", content |-> <<>>] ]

NoSheet == [ inserted |-> <<>>, appended |-> <<>> ]

\* The history entry of an append to a key.
Appended(op, user_message, bot_response, now) ==
    [ op |-> op, user |-> user_message, assistant |-> bot_response, timestamp |-> now ]

\* POST /start
start_conversation(user_id, message) ==
    LET cleared == clear_context(conversation_contexts, user_id)
        updated == update_conversation_context(cleared, user_id,
                       <<"/","s","t","a","r","t">>, welcome_message, clock)
    IN  /\ conversation_contexts' = updated
        /\ log' = [log EXCEPT ![user_id] =
                      << Appended("start", <<"/","s","t","a","r","t">>,
                                  welcome_message, clock) >>]
        /\ http' = HttpExchange("start", user_id, message, NoRegistration,
                       get_conversation_context(conversation_contexts, user_id),
                       Answer(200, welcome_message,
                              Len(get_conversation_context(updated, user_id)),
                              FALSE, FALSE, <<>>),
                       NoCompletion, NoSheet)
        /\ alone' = [alone EXCEPT ![user_id] =
                        update_conversation_context(clear_context(@, user_id), user_id,
                            <<"/","s","t","a","r","t">>, welcome_message, clock)]
        /\ clock' = clock + 1
        /\ UNCHANGED openai_client

\* POST /chat; reply is what the completion service does if it is called
chat_with_bot(user_id, message, reply) ==
    LET context == get_conversation_context(conversation_contexts, user_id)
        bot     == generate_ai_response(message, context, openai_client, reply)
        updated == update_conversation_context(conversation_contexts, user_id,
                       message, bot.text, clock)
        completion == IF bot.called
                      THEN [ called |-> TRUE, messages |-> bot.messages, reply |-> reply ]
                      ELSE NoCompletion
        by_itself  == generate_ai_response(message,
                          get_conversation_context(alone[user_id], user_id),
                          openai_client, reply)
    IN  IF bot.raised
        THEN /\ http' = HttpExchange("chat", user_id, message, NoRegistration, context,
                            Answer(500, <<"Error processing chat: ">>, 0,
                                   FALSE, FALSE, <<>>),
                            completion, NoSheet)
             /\ clock' = clock + 1
             /\ UNCHANGED <<openai_client, conversation_contexts, log, alone>>
        ELSE /\ conversation_contexts' = updated
             /\ alone' = [alone EXCEPT ![user_id] =
                             update_conversation_context(@, user_id, message,
                                 by_itself.text, clock)]
             /\ log' = [log EXCEPT ![user_id] =
                           Append(@, Appended("chat", message, bot.text, clock))]
             /\ http' = HttpExchange("chat", user_id, message, NoRegistration, context,
                            Answer(200, bot.text,
                                   Len(get_conversation_context(updated, user_id)),
                                   FALSE, FALSE, <<>>),
                            completion, NoSheet)
             /\ clock' = clock + 1
             /\ UNCHANGED openai_client

\* POST /register; sheets is what the spreadsheet service does
register_for_course(registration, sheets) ==
    LET sheet   == save_to_google_sheets(registration, sheets, clock)
        message == confirmation_message(registration, sheet.saved)
        before  == IF Truthy(registration.user_id)
                   THEN get_conversation_context(conversation_contexts,
                                                 registration.user_id)
                   ELSE <<>>
    IN  /\ IF Truthy(registration.user_id)
           THEN /\ conversation_contexts' =
                       update_conversation_context(conversation_contexts,
                           registration.user_id, registration_text(registration),
                           message, clock)
                /\ log' = [log EXCEPT ![registration.user_id] =
                              Append(@, Appended("register",
                                         registration_text(registration),
                                         message, clock))]
                /\ alone' = [alone EXCEPT ![registration.user_id] =
                                update_conversation_context(@, registration.user_id,
                                    registration_text(registration), message, clock)]
           ELSE UNCHANGED <<conversation_contexts, log, alone>>
        /\ http' = HttpExchange("register", registration.user_id, <<>>, registration,
                       before,
                       Answer(200, message, 0, TRUE, sheet.saved,
                              registration_id(registration, clock)),
                       NoCompletion, sheet)
        /\ clock' = clock + 1
        /\ UNCHANGED openai_client

-----------------------------------------------------------------------------
(* Inputs *)

Users == {"u1", "u2"}

\* "Hi" is a greeting, "the PRICE" asks a FAQ, "ok?" is neither.
Messages ==
    { <<"H","i">>, <<"t","h","e"," ","P","R","I","C","E">>, <<"o","k","?">> }

CompletionReplies ==
    { CompletionReply("error", <<>>),
      CompletionReply("no_choices", <<>>),
      CompletionReply("null", <<>>),
      CompletionReply("content", <<>>),
      CompletionReply("content", <<" ","\n">>),
      CompletionReply("content", <<" ","S","u","r","e","!","\n">>) }

\* a failing call and an answering one
Replies ==
    { CompletionReply("error", <<>>),
      CompletionReply("content", <<" ","S","u","r","e","!","\n">>) }

\* A registration form; user_id is None, "", or a key.
Registrations ==
    { [ name |-> <<"A","d","a">>, email |-> <<"a","@","x",".","i","o">>,
        phone |-> <<"5","5","5">>, user_id |-> u ] :
      u \in {NoneValue, ""} \cup Users }

-----------------------------------------------------------------------------
(* The service: any client may send any request at any time. *)

MaxOps == 2

NoExchange ==
    HttpExchange("none", NoneValue, <<>>, NoRegistration, <<>>,
                 Answer(0, <<>>, 0, FALSE, FALSE, <<>>), NoCompletion, NoSheet)

Init ==
    /\ openai_client \in {"client", NoneValue}
    /\ conversation_contexts = [k \in {} |-> <<>>]
    /\ clock = 0
    /\ log = [u \in Users |-> <<>>]
    /\ http = NoExchange
    /\ alone = [u \in Users |-> [k \in {} |-> <<>>]]

Start ==
    /\ clock < MaxOps
    /\ \E u \in Users : start_conversation(u, <<"H","i">>)

Chat ==
    /\ clock < MaxOps
    /\ \E u \in Users, m \in Messages, r \in Replies : chat_with_bot(u, m, r)

Register ==
    /\ clock < MaxOps
    /\ \E reg \in Registrations, s \in SheetsOutcomes : register_for_course(reg, s)

Next == Start \/ Chat \/ Register

Spec == Init /\ [][Next]_vars

-----------------------------------------------------------------------------
(* One key used for a long time: every way of appending to it, repeatedly. *)

MaxDeepOps == 7

DeepUser == "u1"

DeepMessages == { <<"H","i">>, <<"t","h","e"," ","P","R","I","C","E">> }

DeepRegistration ==
    [ name |-> <<"A","d","a">>, email |-> <<"a","@","x",".","i","o">>,
      phone |-> <<"5","5","5">>, user_id |-> DeepUser ]

DeepStart ==
    /\ clock < MaxDeepOps
    /\ start_conversation(DeepUser, <<"H","i">>)

DeepReplies == { CompletionReply("error", <<>>) }

DeepChat ==
    /\ clock < MaxDeepOps
    /\ \E m \in DeepMessages, r \in DeepReplies : chat_with_bot(DeepUser, m, r)

DeepRegister ==
    /\ clock < MaxDeepOps
    /\ register_for_course(DeepRegistration, "ok")

NextDeep == DeepStart \/ DeepChat \/ DeepRegister

SpecDeep == Init /\ [][NextDeep]_vars

\* Every request that arrives is served: the handlers are coroutines without
\* an await, so the event loop runs each of them to completion, one at a time.
SpecSerial == Init /\ [][NextDeep]_vars /\ WF_vars(NextDeep)

-----------------------------------------------------------------------------
(* Two keys served in any interleaving, long enough for one of them to be *)
(* truncated while the other is being written: /start and /chat on both   *)
(* keys, /register naming the second key.                                 *)

MaxPairOps == 7

PairRegisterUser == "u2"

PairRegistration ==
    [ name |-> <<"A","d","a">>, email |-> <<"a","@","x",".","i","o">>,
      phone |-> <<"5","5","5">>, user_id |-> PairRegisterUser ]

PairStart ==
    /\ clock < MaxPairOps
    /\ \E u \in Users : start_conversation(u, <<"H","i">>)

PairChat ==
    /\ clock < MaxPairOps
    /\ \E u \in Users : chat_with_bot(u, <<"H","i">>, CompletionReply("error", <<>>))

PairRegister ==
    /\ clock < MaxPairOps
    /\ register_for_course(PairRegistration, "ok")

NextPair == PairStart \/ PairChat \/ PairRegister

SpecPair == Init /\ [][NextPair]_vars

-----------------------------------------------------------------------------
(* The response router on many messages: one key is given a history of    *)
(* 0..MaxPrior exchanges by asking the same FAQ, then one message of       *)
(* RouterMessages is routed.                                               *)

MaxPrior == 6

PriorMessage == <<"t","h","e"," ","P","R","I","C","E">>

\* "hello", "Hello", "HI", "hey there", "start", "Help", "this price",
\* "help with registration", "Shipping", "What is the PRICE?",
\* "price and duration", "schedule format", "certificate of registration",
\* "benefits", "prerequisites", "instructor", "support", "tell me more",
\* "How much does it cost?", "what time", "sign me up to register",
\* "who is the teacher", "what will I learn", "benefits of the schedule", ""
RouterMessages ==
    { <<"h","e","l","l","o">>,
      <<"H","e","l","l","o">>,
      <<"H","I">>,
      <<"h","e","y"," ","t","h","e","r","e">>,
      <<"s","t","a","r","t">>,
      <<"H","e","l","p">>,
      <<"t","h","i","s"," ","p","r","i","c","e">>,
      <<"h","e","l","p"," ","w","i","t","h"," ","r","e","g","i","s","t","r","a","t","i","o","n">>,
      <<"S","h","i","p","p","i","n","g">>,
      <<"W","h","a","t"," ","i","s"," ","t","h","e"," ","P","R","I","C","E","?">>,
      <<"p","r","i","c","e"," ","a","n","d"," ","d","u","r","a","t","i","o","n">>,
      <<"s","c","h","e","d","u","l","e"," ","f","o","r","m","a","t">>,
      <<"c","e","r","t","i","f","i","c","a","t","e"," ","o","f"," ","r","e","g","i","s","t","r","a","t","i","o","n">>,
      <<"b","e","n","e","f","i","t","s">>,
      <<"p","r","e","r","e","q","u","i","s","i","t","e","s">>,
      <<"i","n","s","t","r","u","c","t","o","r">>,
      <<"s","u","p","p","o","r","t">>,
      <<"t","e","l","l"," ","m","e"," ","m","o","r","e">>,
      <<"H","o","w"," ","m","u","c","h"," ","d","o","e","s"," ","i","t"," ","c","o","s","t","?">>,
      <<"w","h","a","t"," ","t","i","m","e">>,
      <<"s","i","g","n"," ","m","e"," ","u","p"," ","t","o"," ","r","e","g","i","s","t","e","r">>,
      <<"w","h","o"," ","i","s"," ","t","h","e"," ","t","e","a","c","h","e","r">>,
      <<"w","h","a","t"," ","w","i","l","l"," ","I"," ","l","e","a","r","n">>,
      <<"b","e","n","e","f","i","t","s"," ","o","f"," ","t","h","e"," ","s","c","h","e","d","u","l","e">>,
      <<>> }

\* every request so far asked PriorMessage
OnlyPrior == \A i \in 1..Len(log[DeepUser]) : log[DeepUser][i].user = PriorMessage

RouterPrior ==
    /\ OnlyPrior
    /\ clock < MaxPrior
    /\ chat_with_bot(DeepUser, PriorMessage, CompletionReply("error", <<>>))

RouterProbe ==
    /\ OnlyPrior
    /\ \E m \in RouterMessages, r \in CompletionReplies : chat_with_bot(DeepUser, m, r)

NextRouter == RouterPrior \/ RouterProbe

SpecRouter == Init /\ [][NextRouter]_vars

-----------------------------------------------------------------------------
(* Properties of the conversation store *)

\* The exchange a history entry stands for.
Stored(entry) ==
    [ user |-> entry.user, assistant |-> entry.assistant, timestamp |-> entry.timestamp ]

\* The number of /chat calls at the end of a key's history of appends.
TrailingChats(entries) ==
    CHOOSE n \in 0..Len(entries) :
        /\ \A i \in (Len(entries) - n + 1)..Len(entries) : entries[i].op = "chat"
        /\ n < Len(entries) => entries[Len(entries) - n].op # "chat"

\* C1: after every completed /start, /chat and /register, every key of the
\* conversation store holds at most 5 exchanges.
C1_AtMostFive ==
    \A k \in DOMAIN conversation_contexts : Len(conversation_contexts[k]) <= 5

\* C1 witness: a key that has been appended to more than 5 times since its
\* /start, by /chat and by /register, and holds 5 exchanges.
C1_Witness ==
    /\ DeepUser \in DOMAIN conversation_contexts
    /\ Len(log[DeepUser]) > 5
    /\ \E i \in 1..Len(log[DeepUser]) : log[DeepUser][i].op = "register"
    /\ \E i \in 1..Len(log[DeepUser]) : log[DeepUser][i].op = "chat"
    /\ Len(conversation_contexts[DeepUser]) = 5

\* C2: after 6 or more /chat calls in a row with the same user_id, the key
\* holds exactly 5 exchanges, and they are the 5 most recent exchanges of
\* those calls, oldest first.
C2_LastFiveChats ==
    \A u \in Users :
        TrailingChats(log[u]) >= 6 =>
            /\ u \in DOMAIN conversation_contexts
            /\ Len(conversation_contexts[u]) = 5
            /\ \A i \in 1..5 :
                   conversation_contexts[u][i] = Stored(log[u][Len(log[u]) - 5 + i])

\* C2 witness: 7 /chat calls in a row.
C2_Witness ==
    /\ TrailingChats(log[DeepUser]) = 7
    /\ Len(conversation_contexts[DeepUser]) = 5

-----------------------------------------------------------------------------
(* Properties of /start *)

\* The last request was a /chat for a key whose previous request was /start.
ChatRightAfterStart ==
    /\ http.op = "chat"
    /\ Len(log[http.user_id]) = 2
    /\ log[http.user_id][1].op = "start"
    /\ log[http.user_id][2].op = "chat"
    /\ log[http.user_id][2].timestamp = clock - 1

\* C3 as stated: a /chat right after a /start for the same user_id answers
\* context_length 1.
C3_Original == ChatRightAfterStart => http.context_length = 1

\* C3 amended: a /chat right after a /start for the same user_id answers
\* context_length 2, the /start exchange and its own, whatever the key held
\* before the /start.
C3_ChatAfterStartIsTwo ==
    ChatRightAfterStart =>
        /\ http.status = 200
        /\ http.context_length = 2
        /\ Len(conversation_contexts[http.user_id]) = 2
        /\ conversation_contexts[http.user_id][1] = Stored(log[http.user_id][1])

\* C3 witness: a /start after 5 or more earlier requests for the key, and the
\* /chat that came next.
C3_Witness ==
    /\ ChatRightAfterStart
    /\ log[http.user_id][1].timestamp >= 5
    /\ http.context_length = 2

\* C4: a /start leaves the key with exactly one exchange, the start exchange,
\* none of the exchanges it held before, and answers context_length 1.
C4_StartResets ==
    http.op = "start" =>
        /\ http.status = 200
        /\ http.context_length = 1
        /\ http.user_id \in DOMAIN conversation_contexts
        /\ Len(conversation_contexts[http.user_id]) = 1
        /\ conversation_contexts[http.user_id][1] =
               [ user |-> <<"/","s","t","a","r","t">>,
                 assistant |-> http.response, timestamp |-> clock - 1 ]
        /\ \A i \in 1..Len(http.before) :
               http.before[i] # conversation_contexts[http.user_id][1]

\* C4 witness: a /start for a key that held 5 exchanges.
C4_Witness ==
    /\ http.op = "start"
    /\ Len(http.before) = 5
    /\ Len(conversation_contexts[http.user_id]) = 1

-----------------------------------------------------------------------------
(* Properties of the response router *)

\* the greeting tokens
GreetingTokens ==
    { <<"h","e","l","l","o">>, <<"h","i">>, <<"h","e","y">>,
      <<"s","t","a","r","t">>, <<"h","e","l","p">> }

\* the lowercased message contains a greeting token
HasGreetingToken(message) == \E t \in GreetingTokens : Contains(t, Lower(message))

\* the FAQ keywords in the order of their definition
FaqOrder ==
    << <<"d","u","r","a","t","i","o","n">>, <<"p","r","i","c","e">>,
       <<"b","e","n","e","f","i","t","s">>, <<"s","c","h","e","d","u","l","e">>,
       <<"p","r","e","r","e","q","u","i","s","i","t","e","s">>,
       <<"i","n","s","t","r","u","c","t","o","r">>, <<"f","o","r","m","a","t">>,
       <<"s","u","p","p","o","r","t">>,
       <<"r","e","g","i","s","t","r","a","t","i","o","n">>,
       <<"c","e","r","t","i","f","i","c","a","t","e">> >>

\* the lowercased message contains the n-th FAQ keyword
HasFaqKeyword(message, n) == Contains(FaqOrder[n], Lower(message))

\* the canned answer of a FAQ keyword
AnswerOf(keyword) ==
    FAQ_RESPONSES[CHOOSE i \in 1..Len(FAQ_RESPONSES) :
                      FAQ_RESPONSES[i].keyword = keyword].response

\* the greeting rule applies to the last /chat
GreetingApplies == http.before = <<>> /\ HasGreetingToken(http.message)

\* C5: a /chat message with a greeting token gets the welcome text, which
\* names the course, without a completion call when the key's history is
\* empty, FAQ keyword or not; with a non-empty history no /chat gets the
\* welcome text.
C5_GreetingFirst ==
    http.op = "chat" =>
        /\ GreetingApplies =>
               /\ http.status = 200
               /\ http.response = GreetingResponse
               /\ Contains(<<"Complete Python Development Bootcamp">>, http.response)
               /\ ~http.completion_called
        /\ http.before # <<>> => http.response # GreetingResponse

\* C5 witness: "help with registration", a greeting token and a FAQ keyword,
\* sent to a key without history.
C5_Witness ==
    /\ http.op = "chat"
    /\ http.before = <<>>
    /\ http.message = <<"h","e","l","p"," ","w","i","t","h"," ",
                        "r","e","g","i","s","t","r","a","t","i","o","n">>
    /\ http.response = GreetingResponse

\* C6: when the greeting rule does not apply and the message contains FAQ
\* keywords, the response is the canned answer of the one defined first,
\* without a completion call.
C6_FirstDefinedKeyword ==
    (http.op = "chat" /\ ~GreetingApplies) =>
        \A n \in 1..Len(FaqOrder) :
            ( /\ HasFaqKeyword(http.message, n)
              /\ \A j \in 1..(n - 1) : ~HasFaqKeyword(http.message, j) ) =>
                /\ http.status = 200
                /\ http.response = AnswerOf(FaqOrder[n])
                /\ ~http.completion_called

\* C6 witness: "price and duration" is answered with the duration.
C6_Witness ==
    /\ http.op = "chat"
    /\ http.message = <<"p","r","i","c","e"," ","a","n","d"," ",
                        "d","u","r","a","t","i","o","n">>
    /\ http.response = AnswerOf(<<"d","u","r","a","t","i","o","n">>)
    /\ http.response # AnswerOf(<<"p","r","i","c","e">>)

\* the FAQ answer for "price"
PriceAnswer ==
    <<"The course price is ", "$299", ". We also offer payment plans if needed.">>

\* the last /chat had a message containing "price", in any case, and a history
PriceWithHistory ==
    /\ http.op = "chat"
    /\ http.before # <<>>
    /\ Contains(<<"p","r","i","c","e">>, Lower(http.message))

\* C7 as stated: every message containing "price" sent to a key with history
\* gets the FAQ answer for "price".
C7_Original == PriceWithHistory => http.response = PriceAnswer

\* C7 amended: every message containing "price" and not "duration", the one
\* keyword defined before it, sent to a key with a history of 1 to 5
\* exchanges gets the FAQ answer for "price", the same for every length.
C7_PriceUnlessDuration ==
    ( /\ PriceWithHistory
      /\ ~Contains(<<"d","u","r","a","t","i","o","n">>, Lower(http.message)) ) =>
        /\ Len(http.before) \in 1..5
        /\ http.status = 200
        /\ http.response = PriceAnswer
        /\ ~http.completion_called

\* C7 witness: "What is the PRICE?" sent to a key holding 5 exchanges.
C7_Witness ==
    /\ PriceWithHistory
    /\ Len(http.before) = 5
    /\ http.message = <<"W","h","a","t"," ","i","s"," ","t","h","e"," ",
                        "P","R","I","C","E","?">>
    /\ http.response = PriceAnswer

-----------------------------------------------------------------------------
(* Properties of the fallback rule *)

\* the apology of `if not openai_client`
ApologyUnavailable ==
    <<"I'm sorry, the AI service is not available right now. Please try again later or contact support.">>

\* the apology of the `except` branches
ApologyTrouble ==
    <<"I'm sorry, I'm having trouble processing your request right now. Please try again or contact our support team for assistance.">>

\* the last /chat matched neither the greeting rule nor the FAQ rule
FallbackTaken ==
    /\ http.op = "chat"
    /\ ~GreetingApplies
    /\ \A n \in 1..Len(FaqOrder) : ~HasFaqKeyword(http.message, n)

\* no client is configured
ServiceUnavailable == openai_client = NoneValue

\* the completion call was made and failed
CallFailed ==
    /\ http.completion_called
    /\ http.completion_reply.kind \in {"error", "no_choices"}

\* the last /chat answered with success and its exchange is the newest of the key
AnsweredAndStored ==
    /\ http.status = 200
    /\ http.user_id \in DOMAIN conversation_contexts
    /\ LET history == conversation_contexts[http.user_id]
       IN  /\ Len(history) = IF Len(http.before) < 5 THEN Len(http.before) + 1 ELSE 5
           /\ http.context_length = Len(history)
           /\ history[Len(history)] =
                  [ user |-> http.message, assistant |-> http.response,
                    timestamp |-> clock - 1 ]

\* C8 as stated: the apology is one string, the same when the service is
\* unavailable and when its call fails: each case answers what the other does.
C8_Original ==
    FallbackTaken =>
        /\ ServiceUnavailable => (AnsweredAndStored /\ http.response = ApologyTrouble)
        /\ CallFailed => (AnsweredAndStored /\ http.response = ApologyUnavailable)

\* C8 amended: a /chat that falls back answers with success, never an error,
\* and its exchange is appended; its text is the "not available" apology when
\* no client is configured and the "having trouble" apology when the call fails.
C8_FallbackDegrades ==
    FallbackTaken =>
        /\ ServiceUnavailable =>
               /\ AnsweredAndStored
               /\ http.response = ApologyUnavailable
               /\ ~http.completion_called
        /\ CallFailed =>
               /\ AnsweredAndStored
               /\ http.response = ApologyTrouble

\* C8 witness: "tell me more" sent to a key holding 5 exchanges, the call fails.
C8_Witness ==
    /\ FallbackTaken
    /\ CallFailed
    /\ http.completion_reply.kind = "error"
    /\ Len(http.before) = 5
    /\ http.message = <<"t","e","l","l"," ","m","e"," ","m","o","r","e">>
    /\ http.response = ApologyTrouble

-----------------------------------------------------------------------------
(* Properties of /register *)

\* the line of the confirmation when the save failed
DegradedLine ==
    <<"**Registration received but there was an issue with our system. We will contact you shortly.**">>

\* C9: /register answers success whatever the spreadsheet service does; the
\* saved flag is true exactly when the row was appended, and when it is false
\* the confirmation carries the degraded line.
C9_RegisterNeverFails ==
    http.op = "register" =>
        /\ http.status = 200
        /\ http.success
        /\ http.sheets_saved <=> http.sheet_appended # <<>>
        /\ ~http.sheets_saved => Contains(DegradedLine, http.response)
        /\ http.sheets_saved => ~Contains(DegradedLine, http.response)

\* C9 witness: the headers went in and the append of the row failed.
C9_Witness ==
    /\ http.op = "register"
    /\ http.sheet_inserted # <<>>
    /\ http.sheet_appended = <<>>
    /\ ~http.sheets_saved
    /\ http.success

\* a text shows the name, the email or the phone of a registration
Shows(text, registration) ==
    \/ Contains(registration.name, text)
    \/ Contains(registration.email, text)
    \/ Contains(registration.phone, text)

\* a text shows the name, the email and the phone of a registration
ShowsAll(text, registration) ==
    /\ Contains(registration.name, text)
    /\ Contains(registration.email, text)
    /\ Contains(registration.phone, text)

\* C10 as stated: after a /register, with a user_id or without, no exchange of
\* the conversation store shows the registration's name, email or phone.
C10_Original ==
    http.op = "register" =>
        \A k \in DOMAIN conversation_contexts :
            \A i \in 1..Len(conversation_contexts[k]) :
                /\ ~Shows(conversation_contexts[k][i].user, http.registration)
                /\ ~Shows(conversation_contexts[k][i].assistant, http.registration)

\* a /register step
RegisterStep == clock' = clock + 1 /\ http'.op = "register"

\* C10 amended: a /register without a user_id (None or "") leaves the
\* conversation store as it was; a /register with a user_id appends to that
\* key an exchange showing the name, the email and the phone, in the user
\* text and in the confirmation.
C10_RetainedOnlyWithUserId ==
    [][ RegisterStep =>
          IF http'.user_id = NoneValue \/ http'.user_id = ""
          THEN conversation_contexts' = conversation_contexts
          ELSE /\ http'.user_id \in DOMAIN conversation_contexts'
               /\ LET history == conversation_contexts'[http'.user_id]
                  IN  /\ ShowsAll(history[Len(history)].user, http'.registration)
                      /\ ShowsAll(history[Len(history)].assistant, http'.registration)
                      /\ history[Len(history)].assistant = http'.response
      ]_vars

\* C10 witness: a /register without a user_id after one with a user_id: the
\* store holds the earlier registration and nothing of the last request.
C10_Witness ==
    /\ http.op = "register"
    /\ http.user_id = NoneValue
    /\ \E k \in DOMAIN conversation_contexts :
           /\ Len(conversation_contexts[k]) = 1
           /\ ShowsAll(conversation_contexts[k][1].user, http.registration)
           /\ conversation_contexts[k][1].timestamp < clock - 1

-----------------------------------------------------------------------------
(* C11: a request for one key leaves every other key's stored history as  *)
(* it was, and whatever the interleaving of requests for different keys,  *)
(* each key's history is the one its own requests produce when they run   *)
(* alone in the same order.                                               *)

HasKey(contexts, k) == k \in DOMAIN contexts

SameHistory(k, a, b) ==
    /\ HasKey(a, k) <=> HasKey(b, k)
    /\ get_conversation_context(a, k) = get_conversation_context(b, k)

OtherKeysKept ==
    \A k \in Users \ {http'.user_id} :
        SameHistory(k, conversation_contexts, conversation_contexts')

AsIfAlone == \A k \in Users : SameHistory(k, conversation_contexts, alone[k])

C11_KeysAreIndependent == [](AsIfAlone) /\ [][OtherKeysKept]_vars

\* both keys were written in turn and the first one has been truncated
\* while the second one held a history of its own
C11_Witness ==
    /\ Len(log["u1"]) > ContextLimit
    /\ Len(log["u2"]) >= 1
    /\ log["u2"][1].timestamp > log["u1"][1].timestamp
    /\ log["u2"][1].timestamp < log["u1"][Len(log["u1"])].timestamp
    /\ http.user_id = "u1"
    /\ Len(get_conversation_context(conversation_contexts, "u1")) = ContextKeep

-----------------------------------------------------------------------------
(* Requests for the same key *)

\* The two most recent requests that appended to key u have completed and
\* the key's history lacks the exchange of one of them.
LostUpdate(u) ==
    /\ Len(log[u]) >= 2
    /\ LET h == get_conversation_context(conversation_contexts, u)
           n == Len(log[u])
       IN  ~ /\ Len(h) >= 2
             /\ h[Len(h)] = Stored(log[u][n])
             /\ h[Len(h) - 1] = Stored(log[u][n - 1])

-----------------------------------------------------------------------------
(* The history of a key as an ordered suffix *)

Min(a, b) == IF a < b THEN a ELSE b

\* the exchanges appended to key u since, and including, its last /start
AppendedSince(u) == [i \in 1..Len(log[u]) |-> Stored(log[u][i])]

IsOrderedSuffix(u) ==
    LET h == get_conversation_context(conversation_contexts, u)
        n == Len(log[u])
    IN  /\ Len(h) = Min(n, 5)
        /\ \A i \in 1..Len(h) : h[i] = AppendedSince(u)[n - Len(h) + i]

\* h becomes g by adding one exchange at the end and removing d from the front
AddedAtEnd(h, g, d) ==
    /\ Len(g) = Len(h) + 1 - d
    /\ \A i \in 1..(Len(g) - 1) : g[i] = h[i + d]

HistoryStep(u) ==
    LET h == get_conversation_context(conversation_contexts, u)
        g == get_conversation_context(conversation_contexts', u)
    IN  \/ g = h
        \/ \E d \in 0..Len(h) : AddedAtEnd(h, g, d) /\ (d > 0 => Len(g) = 5)
        \/ http'.op = "start" /\ http'.user_id = u /\ Len(g) = 1

\* C13: each key's stored history is the last min(n, 5) of the n exchanges
\* appended to it since and including its most recent /start, in the order
\* of appending; a request adds one exchange at the end, removes exchanges
\* only from the front (or all of them, by /start), and alters or reorders
\* none of those that stay.
C13_OrderedSuffix == [](\A u \in Users : IsOrderedSuffix(u)) /\ [][\A u \in Users : HistoryStep(u)]_vars

\* C13 witness: the second key was started, then appended to by /chat and
\* by /register more than 5 times, and holds the last 5, the /start
\* exchange gone from the front, while the first key holds a history too.
C13_Witness ==
    /\ Len(log["u2"]) > 5
    /\ log["u2"][1].op = "start"
    /\ \E i \in 1..Len(log["u2"]) : log["u2"][i].op = "register"
    /\ \E i \in 1..Len(log["u2"]) : log["u2"][i].op = "chat"
    /\ conversation_contexts["u2"][1] = Stored(log["u2"][Len(log["u2"]) - 4])
    /\ Len(log["u1"]) >= 1

-----------------------------------------------------------------------------
(* The turns sent to the completion service *)

Turn(role, content) == [role |-> role, content |-> content]

\* the turns m are the system turn, the exchanges of h oldest first as a
\* user turn and an assistant turn each, and message as the final user turn
IsPromptOf(m, h, message) ==
    /\ Len(m) = 2 + 2 * Len(h)
    /\ m[1] = Turn("system", get_system_prompt)
    /\ \A i \in 1..Len(h) :
           /\ m[2 * i]     = Turn("user", h[i].user)
           /\ m[2 * i + 1] = Turn("assistant", h[i].assistant)
    /\ m[Len(m)] = Turn("user", message)

\* C14: when the fallback rule is taken and a client is configured, the
\* completion service is called with one system turn, then a user turn and
\* an assistant turn for each exchange of the key's history as it was
\* before the current message, oldest first, then the current message as
\* the final user turn: 2 + 2 * (history length) turns, at most 12, the
\* current exchange not among them.  Nothing is sent under another rule.
C14_PromptTurns ==
    http.op = "chat" =>
        /\ http.completion_called <=> (FallbackTaken /\ ~ServiceUnavailable)
        /\ http.completion_called =>
               /\ IsPromptOf(http.completion_messages, http.before, http.message)
               /\ Len(http.completion_messages) <= 12

\* C14 witness: the fallback is taken on a full history whose exchanges
\* differ from each other, and 12 turns are sent.
C14_Witness ==
    /\ http.op = "chat"
    /\ FallbackTaken
    /\ http.completion_called
    /\ Len(http.before) = 5
    /\ \E i, j \in 1..5 : http.before[i].user # http.before[j].user
    /\ http.before[1].assistant # http.before[5].assistant
    /\ Len(http.completion_messages) = 12

-----------------------------------------------------------------------------
(***************************************************************************)
(* demo_chatbot.py: the router of the demo variant.  The pictographs of    *)
(* its canned texts are left out; no test of the router reads them.        *)
(***************************************************************************)

DEMO_COURSE_INFO ==
    [ name       |-> <<"Complete Python Development Bootcamp">>,
      duration   |-> <<"12 weeks (3 months)">>,
      price      |-> <<"$299">>,
      instructor |-> <<"John Smith">>,
      format     |-> <<"Online with live sessions">>,
      schedule   |-> <<"Monday, Wednesday, Friday - 7:00 PM to 9:00 PM EST">> ]

DemoGreetingResponse ==
    <<"Welcome to ">> \o DEMO_COURSE_INFO.name
    \o <<"!\n\nI'm here to help you learn about our Python development course. Here's what I can tell you:\n\n**Course:** ">>
    \o DEMO_COURSE_INFO.name
    \o <<"\n**Duration:** ">> \o DEMO_COURSE_INFO.duration
    \o <<"\n**Price:** ">> \o DEMO_COURSE_INFO.price
    \o <<"\n**Instructor:** ">> \o DEMO_COURSE_INFO.instructor
    \o <<"\n\nAsk me about: ...\n\nWhat would you like to know?">>

DemoDurationResponse ==
    <<"The course runs for ">> \o DEMO_COURSE_INFO.duration
    \o <<". Classes are held ">> \o DEMO_COURSE_INFO.schedule \o <<".">>

DemoPriceResponse ==
    <<"The course costs ">> \o DEMO_COURSE_INFO.price
    \o <<". We offer flexible payment plans if needed!">>

DemoScheduleResponse ==
    <<"Classes are scheduled for ">> \o DEMO_COURSE_INFO.schedule
    \o <<". All sessions are recorded if you miss any!">>

DemoRegisterResponse ==
    <<"Great! To register, I'll need your name, email, and phone number. You can use the /register endpoint or tell me you'd like to sign up!">>

DemoInstructorResponse ==
    <<"Your instructor is ">> \o DEMO_COURSE_INFO.instructor
    \o <<", an experienced Python developer with 8+ years in the industry.">>

DemoBenefitsResponse == <<"**Course Benefits:**\n...">>

\* the `else` branch, which quotes the message as it was sent
DemoDefaultResponse(message) ==
    <<"I understand you're asking about: \"">> \o message
    \o <<"\"\n\nI'm a demo version, so I have pre-programmed responses for common questions like: ...">>

\* get_demo_response with the FAQ branches ahead of the greeting test
demo_response_faq_first(message) ==
    LET message_lower == Lower(message)
        has(word)     == Contains(word, message_lower)
    IN  IF has(<<"d","u","r","a","t","i","o","n">>) THEN DemoDurationResponse
        ELSE IF has(<<"p","r","i","c","e">>) \/ has(<<"c","o","s","t">>) THEN DemoPriceResponse
        ELSE IF has(<<"s","c","h","e","d","u","l","e">>) \/ has(<<"t","i","m","e">>) THEN DemoScheduleResponse
        ELSE IF has(<<"r","e","g","i","s","t","e","r">>) THEN DemoRegisterResponse
        ELSE IF has(<<"i","n","s","t","r","u","c","t","o","r">>) \/ has(<<"t","e","a","c","h","e","r">>) THEN DemoInstructorResponse
        ELSE IF has(<<"b","e","n","e","f","i","t","s">>) \/ has(<<"l","e","a","r","n">>) THEN DemoBenefitsResponse
        ELSE IF has(<<"h","e","l","l","o">>) \/ has(<<"h","i">>) \/ has(<<"s","t","a","r","t">>) \/ has(<<"h","e","y">>) THEN DemoGreetingResponse
        ELSE DemoDefaultResponse(message)

get_demo_response(message) ==
    LET message_lower == Lower(message)
        has(word)     == Contains(word, message_lower)
    IN  IF has(<<"h","e","l","l","o">>) \/ has(<<"h","i">>) \/ has(<<"s","t","a","r","t">>) \/ has(<<"h","e","y">>) THEN DemoGreetingResponse
        ELSE IF has(<<"d","u","r","a","t","i","o","n">>) THEN DemoDurationResponse
        ELSE IF has(<<"p","r","i","c","e">>) \/ has(<<"c","o","s","t">>) THEN DemoPriceResponse
        ELSE IF has(<<"s","c","h","e","d","u","l","e">>) \/ has(<<"t","i","m","e">>) THEN DemoScheduleResponse
        ELSE IF has(<<"r","e","g","i","s","t","e","r">>) THEN DemoRegisterResponse
        ELSE IF has(<<"i","n","s","t","r","u","c","t","o","r">>) \/ has(<<"t","e","a","c","h","e","r">>) THEN DemoInstructorResponse
        ELSE IF has(<<"b","e","n","e","f","i","t","s">>) \/ has(<<"l","e","a","r","n">>) THEN DemoBenefitsResponse
        ELSE DemoDefaultResponse(message)

-----------------------------------------------------------------------------
(* The demo router against the main router *)

GreetingRule == <<"greeting">>

NoCannedMatch == <<"none">>

\* the rule the main router took for the last /chat: the greeting, the FAQ
\* keyword whose answer it gave, or no canned match
MainRule ==
    IF http.completion_called THEN NoCannedMatch
    ELSE IF http.response = GreetingResponse THEN GreetingRule
    ELSE IF \E i \in 1..Len(FAQ_RESPONSES) : http.response = FAQ_RESPONSES[i].response
         THEN FAQ_RESPONSES[CHOOSE i \in 1..Len(FAQ_RESPONSES) :
                                http.response = FAQ_RESPONSES[i].response].keyword
    ELSE NoCannedMatch

\* the rule the demo router takes for the message of the last /chat
DemoRule ==
    LET response == get_demo_response(http.message)
    IN  IF response = DemoGreetingResponse THEN GreetingRule
        ELSE IF response = DemoDurationResponse THEN <<"d","u","r","a","t","i","o","n">>
        ELSE IF response = DemoPriceResponse THEN <<"p","r","i","c","e">>
        ELSE IF response = DemoScheduleResponse THEN <<"s","c","h","e","d","u","l","e">>
        ELSE IF response = DemoRegisterResponse THEN <<"r","e","g","i","s","t","e","r">>
        ELSE IF response = DemoInstructorResponse THEN <<"i","n","s","t","r","u","c","t","o","r">>
        ELSE IF response = DemoBenefitsResponse THEN <<"b","e","n","e","f","i","t","s">>
        ELSE NoCannedMatch

DemoGreetingTokens == { <<"h","e","l","l","o">>, <<"h","i">>, <<"s","t","a","r","t">>, <<"h","e","y">> }

\* the keywords that are a rule of both routers
CommonKeywords == { <<"d","u","r","a","t","i","o","n">>, <<"p","r","i","c","e">>, <<"s","c","h","e","d","u","l","e">>, <<"i","n","s","t","r","u","c","t","o","r">>, <<"b","e","n","e","f","i","t","s">> }

\* the keywords of either router
AllKeywords ==
    { FaqOrder[n] : n \in 1..Len(FaqOrder) }
    \cup { <<"c","o","s","t">>, <<"t","i","m","e">>, <<"r","e","g","i","s","t","e","r">>, <<"t","e","a","c","h","e","r">>, <<"l","e","a","r","n">> }

KeywordsIn(message) == { k \in AllKeywords : Contains(k, Lower(message)) }

HasDemoGreetingToken(message) == \E t \in DemoGreetingTokens : Contains(t, Lower(message))

\* no greeting token of either router
NoGreetingToken(message) == ~HasGreetingToken(message) /\ ~HasDemoGreetingToken(message)

\* C15 as stated: for every message and history the demo router selects the
\* rule class the main router selects.
C15_Original == http.op = "chat" => DemoRule = MainRule

\* C15: the demo router greets every message that contains hello, hi, start
\* or hey, whatever the history; it selects the rule class of the main
\* router when the history is empty and the message has one of these four
\* tokens (both greet), when the message has no greeting token and exactly
\* one keyword of either router, that keyword being duration, price,
\* schedule, instructor or benefits (both give that keyword's answer), and
\* when the message has no greeting token and no keyword (no canned match
\* in either).
C15_DemoAgreesInPart ==
    http.op = "chat" =>
        /\ DemoRule = GreetingRule <=> HasDemoGreetingToken(http.message)
        /\ (http.before = <<>> /\ HasDemoGreetingToken(http.message)) =>
               (MainRule = GreetingRule /\ DemoRule = GreetingRule)
        /\ \A k \in CommonKeywords :
               (NoGreetingToken(http.message) /\ KeywordsIn(http.message) = {k}) =>
                   (MainRule = k /\ DemoRule = k)
        /\ (NoGreetingToken(http.message) /\ KeywordsIn(http.message) = {}) =>
               (MainRule = NoCannedMatch /\ DemoRule = NoCannedMatch)

\* C15 witness: on a full history a message whose only keyword is "price"
\* gets the price rule of both routers.
C15_Witness ==
    /\ http.op = "chat"
    /\ Len(http.before) = 5
    /\ NoGreetingToken(http.message)
    /\ KeywordsIn(http.message) = { <<"p","r","i","c","e">> }
    /\ MainRule = <<"p","r","i","c","e">>
    /\ DemoRule = <<"p","r","i","c","e">>
    /\ get_demo_response(http.message) # http.response

-----------------------------------------------------------------------------
(* A written key stays written *)

\* key u holds at least one exchange
NonEmpty(u) == get_conversation_context(conversation_contexts, u) # <<>>

\* the request of this step is a /chat that the greeting rule answers
GreetingFires ==
    /\ http'.op = "chat"
    /\ ~http'.completion_called
    /\ http'.response = GreetingResponse

\* no request has written the history of key u so far
NeverWritten(u) == log[u] = <<>> /\ ~HasKey(conversation_contexts, u)

StaysNonEmpty == \A u \in Users : NonEmpty(u) => get_conversation_context(conversation_contexts', u) # <<>>

GreetsOnlyFirstWrite == GreetingFires => NeverWritten(http'.user_id)

\* C16: once a key holds a non-empty history it holds one after every
\* later request; so the greeting rule of /chat fires for a key only when
\* that /chat is the first request ever to write the key's history: at
\* most once per key, and never after a /start of the key.
C16_GreetingOnlyOnFirstWrite == [][StaysNonEmpty /\ GreetsOnlyFirstWrite]_vars

\* C16 witness: the second key was first written by a /chat that was
\* greeted, when the first key already held a history; the next greeting
\* word sent for the second key got another answer.
C16_Witness ==
    /\ Len(log["u2"]) >= 2
    /\ log["u2"][1].op = "chat"
    /\ log["u2"][1].assistant = GreetingResponse
    /\ log["u2"][2].op = "chat"
    /\ is_greeting(log["u2"][2].user)
    /\ log["u2"][2].assistant # GreetingResponse
    /\ Len(log["u1"]) >= 1
    /\ log["u1"][1].timestamp < log["u2"][1].timestamp

====
